---- MODULE Spec2Model ----
(***************************************************************************)
(* FinancialDataProcessing: the source adapters (get_yfinance_data,        *)
(* get_csv_data, get_mt5_data), the column reducer (drop_all_except) of    *)
(* data.py and the range mapper (scale) of utils.py.                       *)
(*                                                                         *)
(* Every function of the package is synchronous and keeps no state between *)
(* calls.  A behaviour is therefore one call: Init draws the arguments of  *)
(* a pending call, the call's action runs the whole function body and      *)
(* records what it returned (or raised), what it left in the caller's      *)
(* table object and which history requests it sent to the platform.        *)
(***************************************************************************)
EXTENDS Integers, Sequences, FiniteSets, TLC

VARIABLES
    phase,      \* "call": the arguments are bound, the body has not run; "done"
    op,         \* the function called
    args,       \* its arguments
    ret,        \* what it returned: None, a frame, a float, or a raised error
    df,         \* the caller's table object after the call (in-place effects)
    requests    \* history requests sent to the platform, in order, with replies

vars == <<phase, op, args, ret, df, requests>>

-----------------------------------------------------------------------------
(* Bounds of the model *)

MaxRows == 3        \* rows of a table handed to the reducer / the vendor adapter
MaxPrice == 2       \* distinct non-missing prices 1..MaxPrice
MaxBars == 2        \* rows of a platform reply
MaxFileRows == 2    \* data rows of a delimited file
MaxVal == 2         \* scale: every scalar is drawn from -MaxVal..MaxVal

-----------------------------------------------------------------------------
(* Python values *)

None == [kind |-> "None"]

Raise(e) == [kind |-> "raise", error |-> e]

\* The missing-value sentinel (NaN) of a numeric column; prices are 1..MaxPrice.
NaN == 0

Cells == {NaN} \cup (1..MaxPrice)

\* The price that stands in every cell the functions never look at.
Filler == MaxPrice

SecondsPerDay == 86400

\* pandas.Timestamp, to the second
Timestamp(days, secs) == [days |-> days, secs |-> secs]

\* pd.to_datetime(x, unit='s'): epoch seconds to a timestamp
FromEpochSeconds(s) == Timestamp(s \div SecondsPerDay, s % SecondsPerDay)

\* pandas.DataFrame: column labels, index labels, and the rows (row-major,
\* one cell per column).
Frame(columns, index, data) ==
    [kind |-> "frame", columns |-> columns, index |-> index, data |-> data]

IsFrame(v) == v.kind = "frame"

NRows(f) == Len(f.index)

\* positions of the columns whose label is `name`
Positions(f, name) == {j \in 1..Len(f.columns) : f.columns[j] = name}

\* f[name] for a label that occurs once: the column as a sequence
Column(f, name) ==
    LET j == CHOOSE k \in Positions(f, name) : TRUE
    IN  [i \in 1..NRows(f) |-> f.data[i][j]]

\* sequence s restricted to the positions in keep, order preserved
RECURSIVE SelectPositions(_, _, _)
SelectPositions(s, keep, j) ==
    IF j > Len(s) THEN <<>>
    ELSE (IF j \in keep THEN <<s[j]>> ELSE <<>>) \o SelectPositions(s, keep, j + 1)

\* df.drop(columns=labels)
Drop(f, labels) ==
    LET keep == {j \in 1..Len(f.columns) : f.columns[j] \notin labels}
    IN  Frame(SelectPositions(f.columns, keep, 1), f.index,
              [i \in 1..NRows(f) |-> SelectPositions(f.data[i], keep, 1)])

\* df.rename(columns={old: new}); a label that is absent is left alone
Rename(f, old, new) ==
    Frame([j \in 1..Len(f.columns) |->
              IF f.columns[j] = old THEN new ELSE f.columns[j]],
          f.index, f.data)

\* df[label] = values (a new label: the column is appended)
AddColumn(f, label, values) ==
    Frame(Append(f.columns, label), f.index,
          [i \in 1..NRows(f) |-> Append(f.data[i], values[i])])

\* df.set_index(label, inplace=True): the column becomes the index
SetIndex(f, label) ==
    LET g == Drop(f, {label})
    IN  Frame(g.columns, Column(f, label), g.data)

-----------------------------------------------------------------------------
(* data.py: drop_all_except *)

\* Variant of FfillSeries: the fill reaches one row only (ffill(limit=1))
FfillLimit1(s) ==
    [i \in 1..Len(s) |->
        IF s[i] # NaN THEN s[i] ELSE IF i = 1 THEN NaN ELSE s[i - 1]]

\* Series.ffill(): a missing entry takes the last earlier non-missing value
FfillSeries(s) ==
    LET f[i \in 0..Len(s)] ==
            IF i = 0 THEN NaN
            ELSE IF s[i] # NaN THEN s[i] ELSE f[i - 1]
    IN  [i \in 1..Len(s) |-> f[i]]

\* Series.bfill(): a missing entry takes the next later non-missing value
BfillSeries(s) ==
    LET n == Len(s)
        b[i \in 1..(n + 1)] ==
            IF i = n + 1 THEN NaN
            ELSE IF s[i] # NaN THEN s[i] ELSE b[i + 1]
    IN  [i \in 1..n |-> b[i]]

\* the column at position j, as a sequence
ColumnAt(f, j) == [i \in 1..NRows(f) |-> f.data[i][j]]

\* DataFrame.ffill(): every column forward-filled
ffill(f) ==
    Frame(f.columns, f.index,
          [i \in 1..NRows(f) |->
              [j \in 1..Len(f.columns) |-> FfillSeries(ColumnAt(f, j))[i]]])

\* DataFrame.bfill(): every column backward-filled
bfill(f) ==
    Frame(f.columns, f.index,
          [i \in 1..NRows(f) |->
              [j \in 1..Len(f.columns) |-> BfillSeries(ColumnAt(f, j))[i]]])

\* Lines 173-174: what the call leaves in the caller's table object.  The
\* columns are dropped in place; the fill of line 177 builds new tables and
\* rebinds only the local name.
DropInPlace(f, keep_column) ==
    Drop(f, {f.columns[j] : j \in {k \in 1..Len(f.columns) : f.columns[k] # keep_column}})

\* Line 177: df.ffill().bfill()
FillMissing(f) == bfill(ffill(f))

\* Variant of drop_all_except: the columns are dropped, the gaps are left
NoFill(f, keep_column) == DropInPlace(f, keep_column)

\* the returned table
drop_all_except(f, keep_column) == FillMissing(DropInPlace(f, keep_column))

-----------------------------------------------------------------------------
(* Tables the reducer is called with *)

RECURSIVE SeqsUpTo(_, _)
SeqsUpTo(S, n) ==
    IF n = 0 THEN {<<>>}
    ELSE LET shorter == SeqsUpTo(S, n - 1)
         IN  shorter \cup {Append(s, x) : s \in {t \in shorter : Len(t) = n - 1}, x \in S}

Reverse(s) == [i \in 1..Len(s) |-> s[Len(s) + 1 - i]]

\* one bar per day, ascending
DailyIndex(n) == [i \in 1..n |-> FromEpochSeconds(i * SecondsPerDay)]

\* a two-column table; the Close column is p, the Open column is p reversed
\* (so that both columns carry gaps)
PriceTable(p) ==
    Frame(<<"Open", "Close">>, DailyIndex(Len(p)),
          [i \in 1..Len(p) |-> <<Reverse(p)[i], p[i]>>])

InitReducer ==
    /\ phase = "call"
    /\ op = "drop_all_except"
    /\ \E p \in SeqsUpTo(Cells, MaxRows), k \in {"Open", "Close"} :
          args = [table |-> PriceTable(p), keep_column |-> k]
    /\ ret = None
    /\ df = None
    /\ requests = <<>>

\* drop_all_except(table, keep_column)
CallDropAllExcept ==
    /\ phase = "call"
    /\ op = "drop_all_except"
    /\ phase' = "done"
    /\ ret' = drop_all_except(args.table, args.keep_column)
    /\ df' = DropInPlace(args.table, args.keep_column)
    /\ UNCHANGED <<op, args, requests>>

\* drop_all_except(t, keep_column) on the table t a previous call returned
CallDropAllExceptAgain ==
    /\ phase = "done"
    /\ op \in {"drop_all_except", "drop_all_except again"}
    /\ op' = "drop_all_except again"
    /\ args' = [table |-> ret, keep_column |-> args.keep_column]
    /\ ret' = drop_all_except(ret, args.keep_column)
    /\ df' = DropInPlace(ret, args.keep_column)
    /\ UNCHANGED <<phase, requests>>

NextReducer == CallDropAllExcept \/ CallDropAllExceptAgain

SpecReducer == InitReducer /\ [][NextReducer]_vars

-----------------------------------------------------------------------------
(* data.py: get_yfinance_data *)

\* `drop_all_except(x, c)` written as a statement (lines 35 and 156): the
\* table it returns is discarded, x keeps what the call did to it in place.
CallAsStatement(f, keep_column) == DropInPlace(f, keep_column)

\* Lines 33-39; rates is what ticker.history(...) returned
get_yfinance_data(rates, drop_other_column) ==
    LET rates1 == IF drop_other_column THEN CallAsStatement(rates, "Close") ELSE rates
    IN  Rename(rates1, "Close", "Price")

VendorColumns == <<"Open", "High", "Low", "Close", "Volume", "Dividends", "Stock Splits">>

\* a vendor history whose Close column is p
VendorHistory(p) ==
    Frame(VendorColumns, DailyIndex(Len(p)),
          [i \in 1..Len(p) |->
              [j \in 1..Len(VendorColumns) |->
                  IF VendorColumns[j] = "Close" THEN p[i] ELSE Filler]])

InitYFinance ==
    /\ phase = "call"
    /\ op = "get_yfinance_data"
    /\ \E p \in SeqsUpTo(Cells, MaxRows), d \in BOOLEAN :
          args = [rates |-> VendorHistory(p), drop_other_column |-> d]
    /\ ret = None
    /\ df = None
    /\ requests = <<>>

CallYFinance ==
    /\ phase = "call"
    /\ op = "get_yfinance_data"
    /\ phase' = "done"
    /\ ret' = get_yfinance_data(args.rates, args.drop_other_column)
    /\ UNCHANGED <<op, args, df, requests>>

-----------------------------------------------------------------------------
(* data.py: get_csv_data *)

\* Line 60
DailyColumns == <<"Date", "Open", "High", "Low", "Price", "TickVol", "Vol", "Spread">>

\* Line 63
IntradayColumns ==
    <<"Date", "Time", "Open", "High", "Low", "Price", "TickVol", "Vol", "Spread">>

\* A text is a sequence of tokens; + on texts is concatenation.
DateTexts == {<<"2024.01.02">>, <<"2024.01.03">>, <<"n/a">>}

TimeTexts == {<<"09:30">>}

\* days since the epoch of a date token, -1 when it is no date
DateToken(t) ==
    CASE t = "2024.01.02" -> 19724
      [] t = "2024.01.03" -> 19725
      [] OTHER -> -1

\* seconds since midnight of a time token, -1 when it is no time
TimeToken(t) ==
    CASE t = "09:30" -> 34200
      [] OTHER -> -1

\* pd.to_datetime(text) of one text: a timestamp, or None when the text is
\* neither "<date>" nor "<date> <time>"
ParseDatetime(text) ==
    IF Len(text) = 1 /\ DateToken(text[1]) >= 0
        THEN Timestamp(DateToken(text[1]), 0)
    ELSE IF /\ Len(text) = 3
            /\ text[2] = " "
            /\ DateToken(text[1]) >= 0
            /\ TimeToken(text[3]) >= 0
        THEN Timestamp(DateToken(text[1]), TimeToken(text[3]))
    ELSE None

\* pd.read_csv(file_path, delimiter=delim): the first line gives the labels,
\* every other line a row; the rows are numbered from 0
read_csv(file) ==
    Frame(file.header, [i \in 1..Len(file.rows) |-> i - 1], file.rows)

\* Variant of SchemaColumns: the two schemas exchanged
WrongSchemaColumns(dailyBars) == IF dailyBars THEN IntradayColumns ELSE DailyColumns

\* Lines 59-63: the labels assigned by position
SchemaColumns(dailyBars) == IF dailyBars THEN DailyColumns ELSE IntradayColumns

\* Lines 61 and 64: the text the timestamp of row i is parsed from
DatetimeText(f, dailyBars, i) ==
    IF dailyBars THEN Column(f, "Date")[i]
    ELSE Column(f, "Date")[i] \o <<" ">> \o Column(f, "Time")[i]

\* Lines 68-69
ReduceIfAsked(f, drop_other_column) ==
    IF drop_other_column THEN drop_all_except(f, "Price") ELSE f

\* Lines 57-71
get_csv_data(file, dailyBars, drop_other_column) ==
    IF file.kind = "nofile" THEN Raise("FileNotFoundError")
    ELSE LET raw == read_csv(file)
             labels == SchemaColumns(dailyBars)
         IN  IF Len(labels) # Len(raw.columns) THEN Raise("ValueError")
             ELSE LET f1 == Frame(labels, raw.index, raw.data)
                      stamps == [i \in 1..NRows(f1) |->
                                    ParseDatetime(DatetimeText(f1, dailyBars, i))]
                  IN  IF \E i \in 1..NRows(f1) : stamps[i] = None
                          THEN Raise("ValueError")
                      ELSE ReduceIfAsked(SetIndex(AddColumn(f1, "Datetime", stamps),
                                                  "Datetime"),
                                         drop_other_column)

\* A delimited file of `width` columns.  A file with at least the intraday
\* width carries date, time, then the bar; a narrower one date, then the bar.
FileRow(width, date, time, price) ==
    LET intraday == <<date, time, Filler, Filler, Filler, price>>
        daily == <<date, Filler, Filler, Filler, price>>
        known == IF width >= Len(IntradayColumns) THEN intraday ELSE daily
    IN  [j \in 1..width |-> IF j <= Len(known) THEN known[j] ELSE Filler]

FileWidths == (Len(DailyColumns) - 1)..(Len(IntradayColumns) + 1)

NoFile == [kind |-> "nofile"]

FileRows(w) ==
    UNION {{[i \in 1..n |-> FileRow(w, q[i][1], q[i][2], q[i][3])] :
               q \in [1..n -> DateTexts \X TimeTexts \X Cells]} : n \in 0..MaxFileRows}

FilesOfWidth(w) ==
    {[kind |-> "file", header |-> [j \in 1..w |-> "<header>"], rows |-> rows] :
        rows \in FileRows(w)}

Files == {NoFile} \cup UNION {FilesOfWidth(w) : w \in FileWidths}

InitCsv ==
    /\ phase = "call"
    /\ op = "get_csv_data"
    /\ \E file \in Files, b \in BOOLEAN, d \in BOOLEAN :
          args = [file |-> file, dailyBars |-> b, drop_other_column |-> d]
    /\ ret = None
    /\ df = None
    /\ requests = <<>>

CallCsv ==
    /\ phase = "call"
    /\ op = "get_csv_data"
    /\ phase' = "done"
    /\ ret' = get_csv_data(args.file, args.dailyBars, args.drop_other_column)
    /\ UNCHANGED <<op, args, df, requests>>

-----------------------------------------------------------------------------
(* data.py: get_mt5_data *)

\* Lines 100-122: the keys of the timeframes dictionary
TimeframeCodes ==
    <<"M1", "M2", "M3", "M4", "M5", "M6", "M10", "M12", "M15", "M20", "M30",
      "H1", "H2", "H3", "H4", "H6", "H8", "H12", "D1", "W1", "MN1">>

\* Line 124: timeframes.get(timeframe); the value is the platform's constant
\* for the code, None for a key the dictionary does not hold
bar_time_of(timeframe) ==
    IF \E k \in 1..Len(TimeframeCodes) : TimeframeCodes[k] = timeframe
        THEN [kind |-> "TIMEFRAME", code |-> timeframe]
        ELSE None

\* Variant of HasRange: one date is enough
HasRangeEither(a) == a.start_date # None \/ a.end_date # None

\* Line 132
HasRange(a) == a.start_date # None /\ a.end_date # None

\* Line 143
HasPositions(a) == a.start_pos # None /\ a.end_pos # None

RangeRequest(a, bar_time, reply) ==
    [call |-> "copy_rates_range", symbol |-> a.symbol, bar_time |-> bar_time,
     from |-> a.start_date, to |-> a.end_date, reply |-> reply]

PositionRequest(a, bar_time, reply) ==
    [call |-> "copy_rates_from_pos", symbol |-> a.symbol, bar_time |-> bar_time,
     from |-> a.start_pos, to |-> a.end_pos, reply |-> reply]

\* Variant of FetchRates: the position request is a fallback, sent only when
\* the date-range request gave nothing
FetchRatesFirstWins(a, bar_time, range_reply, pos_reply) ==
    LET first == IF HasRange(a) THEN range_reply ELSE None
        ask == HasPositions(a) /\ first = None
    IN  [rates |-> IF ask THEN pos_reply ELSE first,
         requests |->
            (IF HasRange(a) THEN <<RangeRequest(a, bar_time, range_reply)>> ELSE <<>>)
            \o (IF ask THEN <<PositionRequest(a, bar_time, pos_reply)>> ELSE <<>>)]

\* Lines 131-145: the requests sent, in order, and the final binding of rates
FetchRates(a, bar_time, range_reply, pos_reply) ==
    LET rates1 == IF HasRange(a) THEN range_reply ELSE None
        sent1 == IF HasRange(a) THEN <<RangeRequest(a, bar_time, range_reply)>> ELSE <<>>
        rates2 == IF HasPositions(a) THEN pos_reply ELSE rates1
        sent2 == IF HasPositions(a)
                    THEN Append(sent1, PositionRequest(a, bar_time, pos_reply))
                    ELSE sent1
    IN  [rates |-> rates2, requests |-> sent2]

\* the fields of a bar of the platform's structured array
RatesColumns ==
    <<"time", "open", "high", "low", "close", "tick_volume", "spread", "real_volume">>

\* Line 152: pd.DataFrame(rates), one column per field, rows numbered from 0
DataFrameOfRates(rates) ==
    Frame(RatesColumns, [i \in 1..Len(rates.rows) |-> i - 1],
          [i \in 1..Len(rates.rows) |->
              [j \in 1..Len(RatesColumns) |->
                  CASE RatesColumns[j] = "time" -> rates.rows[i].time
                    [] RatesColumns[j] = "close" -> rates.rows[i].close
                    [] OTHER -> Filler]])

\* Lines 152-159
BuildSeries(rates, drop_other_column) ==
    LET f0 == DataFrameOfRates(rates)
        stamps == [i \in 1..NRows(f0) |-> FromEpochSeconds(Column(f0, "time")[i])]
        f1 == SetIndex(AddColumn(f0, "Datetime", stamps), "Datetime")
        f2 == IF drop_other_column THEN CallAsStatement(f1, "close") ELSE f1
    IN  Rename(f2, "close", "Price")

\* Variant of Authorized: the flag is not looked at
AuthorizationIgnored(a) == TRUE

\* Line 95
Authorized(a) == a.authorized

\* Lines 95-159; range_reply and pos_reply are what the platform answers to a
\* copy_rates_range and to a copy_rates_from_pos request, if one is sent
get_mt5_data(a, range_reply, pos_reply) ==
    IF ~Authorized(a) THEN [ret |-> None, requests |-> <<>>]
    ELSE LET bar_time == bar_time_of(a.timeframe)
         IN  IF bar_time = None THEN [ret |-> None, requests |-> <<>>]
             ELSE LET got == FetchRates(a, bar_time, range_reply, pos_reply)
                  IN  IF got.rates = None
                          THEN [ret |-> None, requests |-> got.requests]
                          ELSE [ret |-> BuildSeries(got.rates, a.drop_other_column),
                                requests |-> got.requests]

\* The platform answers a history request with None or with a structured
\* array of bars (possibly of length 0), one bar per day.
Rates(closes) ==
    [kind |-> "rates",
     rows |-> [i \in 1..Len(closes) |-> [time |-> i * SecondsPerDay, close |-> closes[i]]]]

Replies == {None} \cup {Rates(c) : c \in SeqsUpTo(Cells, MaxBars)}

\* the answers the platform can give to a request; a request that lacks one of
\* its two arguments is never sent, so there is nothing to answer
RepliesTo(complete) == IF complete THEN Replies ELSE {None}

\* timeframe arguments: every code of the dictionary and some that are not
TimeframeArgs ==
    {TimeframeCodes[k] : k \in 1..Len(TimeframeCodes)} \cup {"M7", "h1", ""}

OptionalDate == {None, [kind |-> "datetime", days |-> 19724]}

OptionalPos == {None, [kind |-> "int", value |-> 0]}

InitMt5 ==
    /\ phase = "call"
    /\ op = "get_mt5_data"
    /\ \E au \in BOOLEAN, tf \in TimeframeArgs, sd \in OptionalDate, ed \in OptionalDate,
          sp \in OptionalPos, ep \in OptionalPos, d \in BOOLEAN :
          args = [authorized |-> au, symbol |-> "EURUSD", timeframe |-> tf,
                  start_date |-> sd, end_date |-> ed, start_pos |-> sp, end_pos |-> ep,
                  drop_other_column |-> d]
    /\ ret = None
    /\ df = None
    /\ requests = <<>>

CallMt5 ==
    /\ phase = "call"
    /\ op = "get_mt5_data"
    /\ phase' = "done"
    /\ \E range_reply \in RepliesTo(HasRange(args)),
          pos_reply \in RepliesTo(HasPositions(args)) :
          LET out == get_mt5_data(args, range_reply, pos_reply)
          IN  /\ ret' = out.ret
              /\ requests' = out.requests
    /\ UNCHANGED <<op, args, df>>

InitAdapters == InitYFinance \/ InitCsv \/ InitMt5

NextAdapters == CallYFinance \/ CallCsv \/ CallMt5

SpecAdapters == InitAdapters /\ [][NextAdapters]_vars

-----------------------------------------------------------------------------
(* utils.py: scale *)

\* Numbers are exact rationals num/den in lowest terms with den > 0; the
\* rounding of binary floating point is outside the model.
Abs(x) == IF x < 0 THEN -x ELSE x

RECURSIVE GCD(_, _)
GCD(a, b) == IF b = 0 THEN a ELSE GCD(b, a % b)

Rat(n, d) ==
    LET g == GCD(Abs(n), Abs(d))
        sign == IF d < 0 THEN -1 ELSE 1
    IN  [kind |-> "float", num |-> sign * (n \div g), den |-> sign * (d \div g)]

Whole(n) == Rat(n, 1)

RatAdd(x, y) == Rat(x.num * y.den + y.num * x.den, x.den * y.den)

RatSub(x, y) == Rat(x.num * y.den - y.num * x.den, x.den * y.den)

RatMul(x, y) == Rat(x.num * y.num, x.den * y.den)

\* x / y for y # 0
RatDiv(x, y) == Rat(x.num * y.den, x.den * y.num)

RatLess(x, y) == x.num * y.den < y.num * x.den

\* Variant of scale: the two clamps return the opposite destination bound
scaleClampSwapped(val, src, dst) ==
    IF RatLess(val, src[1]) THEN dst[2]
    ELSE IF RatLess(src[2], val) THEN dst[1]
    ELSE IF RatSub(src[2], src[1]).num = 0 THEN Raise("ZeroDivisionError")
    ELSE RatAdd(RatMul(RatDiv(RatSub(val, src[1]), RatSub(src[2], src[1])),
                       RatSub(dst[2], dst[1])),
                dst[1])

\* Lines 116-121; src and dst are pairs (index 1 is Python's [0])
scale(val, src, dst) ==
    IF RatLess(val, src[1]) THEN dst[1]
    ELSE IF RatLess(src[2], val) THEN dst[2]
    ELSE IF RatSub(src[2], src[1]).num = 0 THEN Raise("ZeroDivisionError")
    ELSE RatAdd(RatMul(RatDiv(RatSub(val, src[1]), RatSub(src[2], src[1])),
                       RatSub(dst[2], dst[1])),
                dst[1])

Scalars == {Whole(n) : n \in (-MaxVal)..MaxVal}

InitScale ==
    /\ phase = "call"
    /\ op = "scale"
    /\ \E v \in Scalars, lo \in Scalars, hi \in Scalars, dlo \in Scalars, dhi \in Scalars :
          args = [val |-> v, src |-> <<lo, hi>>, dst |-> <<dlo, dhi>>]
    /\ ret = None
    /\ df = None
    /\ requests = <<>>

CallScale ==
    /\ phase = "call"
    /\ op = "scale"
    /\ phase' = "done"
    /\ ret' = scale(args.val, args.src, args.dst)
    /\ UNCHANGED <<op, args, df, requests>>

NextScale == CallScale

SpecScale == InitScale /\ [][NextScale]_vars

-----------------------------------------------------------------------------
(* Properties of the column reducer *)

\* the column the call was asked to keep, as the caller passed it
InputColumn == Column(args.table, args.keep_column)

Missing(s) == {i \in 1..Len(s) : s[i] = NaN}

Present(s) == {i \in 1..Len(s) : s[i] # NaN}

Max(S) == CHOOSE x \in S : \A y \in S : y <= x

Min(S) == CHOOSE x \in S : \A y \in S : x <= y

\* the value the two-pass policy "backward first, then forward" gives entry i
BackwardThenForward(s, i) ==
    LET later == {k \in Present(s) : k > i}
        earlier == {k \in Present(s) : k < i}
    IN  IF s[i] # NaN THEN s[i]
        ELSE IF later # {} THEN s[Min(later)]
        ELSE IF earlier # {} THEN s[Max(earlier)]
        ELSE NaN

ReducerReturned == phase = "done" /\ op = "drop_all_except"

\* C2: in the returned table every entry that was missing in the input and has
\* a later non-missing entry holds the next later non-missing value; only an
\* entry with no later non-missing value takes the nearest earlier one.
C2_BackwardPassFirst ==
    ReducerReturned =>
        \A i \in Missing(InputColumn) :
            Column(ret, args.keep_column)[i] = BackwardThenForward(InputColumn, i)

\* C3: the returned table has exactly the column keep_column, the rows of the
\* input in the input's order (same index, non-missing entries untouched), no
\* missing entry when the input column has a non-missing one, only missing
\* entries when the input column has none, and no row when the input has none.
C3_SingleColumnFilled ==
    ReducerReturned =>
        /\ IsFrame(ret)
        /\ ret.columns = <<args.keep_column>>
        /\ ret.index = args.table.index
        /\ Len(ret.data) = NRows(args.table)
        /\ \A i \in 1..Len(ret.data) : Len(ret.data[i]) = 1
        /\ \A i \in Present(InputColumn) : ret.data[i][1] = InputColumn[i]
        /\ Present(InputColumn) # {} => \A i \in 1..Len(ret.data) : ret.data[i][1] # NaN
        /\ Present(InputColumn) = {} => \A i \in 1..Len(ret.data) : ret.data[i][1] = NaN
        /\ NRows(args.table) = 0 => ret.data = <<>>

\* a call that had gaps to fill at the head, inside and at the tail of a
\* column with a non-missing entry, and returned
C3_Witness ==
    /\ ReducerReturned
    /\ NRows(args.table) = MaxRows
    /\ Cardinality(Missing(InputColumn)) = MaxRows - 1
    /\ InputColumn[1] = NaN
    /\ \A i \in 1..Len(ret.data) : ret.data[i][1] # NaN

\* C7: reducing the table a previous reduction returned gives back that table:
\* same columns, same index, same rows in the same order, same values.
C7_Idempotent ==
    (phase = "done" /\ op = "drop_all_except again") => ret = args.table

\* a second reduction of a table of several rows with distinct prices
C7_Witness ==
    /\ phase = "done"
    /\ op = "drop_all_except again"
    /\ NRows(ret) = MaxRows
    /\ \E i, k \in 1..NRows(ret) : ret.data[i][1] # ret.data[k][1]
    /\ ret = args.table

-----------------------------------------------------------------------------
(* Properties of the range mapper *)

\* C8: with lo < hi, scale(v, (lo,hi), (dlo,dhi)) is dlo for v <= lo, dhi for
\* v >= hi, and (v - lo) / (hi - lo) * (dhi - dlo) + dlo for lo < v < hi; with
\* dlo <= dhi the result lies in [dlo, dhi].
C8_ScaleClampsAndInterpolates ==
    (phase = "done" /\ op = "scale" /\ RatLess(args.src[1], args.src[2])) =>
        LET v == args.val.num
            lo == args.src[1].num
            hi == args.src[2].num
            dlo == args.dst[1].num
            dhi == args.dst[2].num
        IN  /\ ret.kind = "float"
            /\ ret.den > 0
            /\ v <= lo => ret.num = dlo * ret.den
            /\ v >= hi => ret.num = dhi * ret.den
            /\ (lo < v /\ v < hi) =>
                  ret.num * (hi - lo) = ((v - lo) * (dhi - dlo) + dlo * (hi - lo)) * ret.den
            /\ dlo <= dhi => (dlo * ret.den <= ret.num /\ ret.num <= dhi * ret.den)

\* an interpolation that is not a whole number, strictly inside the range
C8_Witness ==
    /\ phase = "done"
    /\ op = "scale"
    /\ RatLess(args.src[1], args.val)
    /\ RatLess(args.val, args.src[2])
    /\ RatLess(args.dst[1], args.dst[2])
    /\ ret.kind = "float"
    /\ ret.den > 1
    /\ RatLess(args.dst[1], ret)
    /\ RatLess(ret, args.dst[2])

-----------------------------------------------------------------------------
(* Properties of the source adapters *)

AdapterReturned(name) == phase = "done" /\ op = name

\* the reply to the last request the platform adapter sent
LastReply == requests[Len(requests)].reply

\* the price column of the raw record set the adapter normalised
RawPrices ==
    CASE op = "get_yfinance_data" -> Column(args.rates, "Close")
      [] op = "get_csv_data" ->
            [i \in 1..Len(args.file.rows) |->
                args.file.rows[i][IF args.dailyBars THEN 5 ELSE 6]]
      [] op = "get_mt5_data" ->
            [i \in 1..Len(LastReply.rows) |-> LastReply.rows[i].close]

\* C1: an adapter called with drop_other_column set, on a raw record set whose
\* price column has a non-missing value, returns a series with no missing
\* price.
C1_ReturnedSeriesHasNoMissingPrice ==
    ( /\ phase = "done"
      /\ op \in {"get_yfinance_data", "get_csv_data", "get_mt5_data"}
      /\ args.drop_other_column
      /\ IsFrame(ret)
      /\ Present(RawPrices) # {} )
    => Missing(Column(ret, "Price")) = {}

\* C4: an unauthorized call of the platform adapter returns None, whatever
\* its other arguments, and sends no history request.
C4_UnauthorizedReturnsNone ==
    (AdapterReturned("get_mt5_data") /\ ~args.authorized) =>
        (ret = None /\ requests = <<>>)

\* an unauthorized call whose other arguments would all be acceptable
C4_Witness ==
    /\ AdapterReturned("get_mt5_data")
    /\ ~args.authorized
    /\ args.timeframe = "H1"
    /\ args.start_date # None
    /\ args.end_date # None
    /\ args.start_pos # None
    /\ args.end_pos # None
    /\ ret = None
    /\ requests = <<>>

\* C5: when the platform adapter is authorized, the timeframe is valid and a
\* history request was sent, a reply with no rows (None, or an array of
\* length 0) makes the adapter return None.
C5_NoRowsReturnsNone ==
    ( /\ AdapterReturned("get_mt5_data")
      /\ args.authorized
      /\ requests # <<>>
      /\ (LastReply = None \/ Len(LastReply.rows) = 0) )
    => ret = None

C6_Codes ==
    {"M1", "M2", "M3", "M4", "M5", "M6", "M10", "M12", "M15", "M20", "M30",
     "H1", "H2", "H3", "H4", "H6", "H8", "H12", "D1", "W1", "MN1"}

C6_CompletePair ==
    \/ (args.start_date # None /\ args.end_date # None)
    \/ (args.start_pos # None /\ args.end_pos # None)

\* C6: an authorized call returns None and sends no history request when the
\* timeframe is not one of the 21 codes, or when neither the date pair nor the
\* position pair is complete.
C6_BadTimeframeOrNoPair ==
    ( /\ AdapterReturned("get_mt5_data")
      /\ args.authorized
      /\ (args.timeframe \notin C6_Codes \/ ~C6_CompletePair) )
    => (ret = None /\ requests = <<>>)

\* an authorized call with a valid timeframe and two half pairs
C6_Witness ==
    /\ AdapterReturned("get_mt5_data")
    /\ args.authorized
    /\ args.timeframe = "MN1"
    /\ args.start_date # None
    /\ args.end_date = None
    /\ args.start_pos = None
    /\ args.end_pos # None
    /\ ret = None
    /\ requests = <<>>

C9_SchemaWidth == IF args.dailyBars THEN 8 ELSE 9

\* the timestamp derived from data row i of the file
C9_Stamp(i) ==
    LET row == args.file.rows[i]
    IN  ParseDatetime(IF args.dailyBars THEN row[1] ELSE row[1] \o <<" ">> \o row[2])

C9_Parsed == AdapterReturned("get_csv_data") /\ args.file.kind = "file"

C10_PositionReplyDecides ==
    ( /\ AdapterReturned("get_mt5_data")
      /\ args.authorized
      /\ args.timeframe \in C6_Codes
      /\ args.start_date # None /\ args.end_date # None
      /\ args.start_pos # None /\ args.end_pos # None )
    => /\ Len(requests) = 2
       /\ requests[1].call = "copy_rates_range"
       /\ requests[2].call = "copy_rates_from_pos"
       /\ requests[2].reply = None => ret = None
       /\ requests[2].reply # None =>
             /\ IsFrame(ret)
             /\ NRows(ret) = Len(requests[2].reply.rows)
             /\ \A i \in 1..NRows(ret) :
                   /\ Column(ret, "Price")[i] = requests[2].reply.rows[i].close
                   /\ ret.index[i] = FromEpochSeconds(requests[2].reply.rows[i].time)

\* the date-range request returned bars, the position request nothing
C10_Witness ==
    /\ AdapterReturned("get_mt5_data")
    /\ Len(requests) = 2
    /\ requests[1].call = "copy_rates_range"
    /\ requests[1].reply # None
    /\ Len(requests[1].reply.rows) = MaxBars
    /\ requests[2].call = "copy_rates_from_pos"
    /\ requests[2].reply = None
    /\ ret = None

====
